---- MODULE Spec2Model ----
(***************************************************************************)
(* Model of the Oracle -> PostgreSQL migration job of mcp-db-migrations:   *)
(* the job record kept in `migrations`, the run function                   *)
(* run_oracle_to_postgres_migration (api.py), and the two connectors       *)
(* (engines/oracle.py, engines/postgres.py).                               *)
(*                                                                         *)
(* One job is followed from create_migration to the return of the run      *)
(* function.  Every call into a database driver (cx_Oracle, psycopg2) is   *)
(* an action whose outcome is chosen nondeterministically between success  *)
(* and a raised exception; faults that the Python code itself produces     *)
(* (KeyError, TypeError) are deterministic.                                *)
(***************************************************************************)
EXTENDS Integers, Sequences, FiniteSets, TLC

\* ---------------------------------------------------------------- bounds
MaxRows == 3
MaxBatch == 2
MaxCols == 1

TableNames == <<"A", "B">>
TableSet == {TableNames[i] : i \in 1..Len(TableNames)}
\* Besides the small values, a row count of 50 and a batch size of 29: the
\* first batch then publishes the percentage of 29 rows out of 50.
RowCounts == (0..MaxRows) \cup {50}
BatchSizes == (1..MaxBatch) \cup {29}

\* Optional values: None is the empty tuple, a present value v is <<v>>.
None == <<>>
Just(v) == <<v>>
Val(o) == o[1]

\* MigrationRequest.tables / exclude_tables: Optional[List[str]].
IncludeLists ==
  {None, Just(<<>>), Just(<<"A">>), Just(<<"B">>), Just(<<"A", "B">>),
   Just(<<"B", "A">>)}
ExcludeLists ==
  {None, Just(<<>>), Just(<<"A">>), Just(<<"a">>), Just(<<"Z">>),
   Just(<<"B", "A">>)}

\* Python truthiness of an Optional[List]: None and [] are both falsy.
Truthy(l) == l # None /\ Len(Val(l)) > 0
InList(x, s) == \E i \in 1..Len(s) : s[i] = x
Min(a, b) == IF a < b THEN a ELSE b

RECURSIVE Filter(_, _)
\* [t for t in tables if t not in exclude]
Filter(s, excl) ==
  IF s = <<>> THEN <<>>
  ELSE IF InList(Head(s), excl) THEN Filter(Tail(s), excl)
       ELSE <<Head(s)>> \o Filter(Tail(s), excl)

\* ------------------------------------------------------ pure helpers
\* tables = request.tables or oracle.get_tables();
\* if request.exclude_tables: tables = [t for t in tables if t not in ...]
SelectTables(req, all) ==
  LET base == IF Truthy(req.tables) THEN Val(req.tables) ELSE all
  IN IF Truthy(req.exclude_tables) THEN Filter(base, Val(req.exclude_tables))
     ELSE base

\* Quotients k (0..100) for which the IEEE-754 double product (k/100)*100 is
\* just below k, so that int() truncates it to k-1.
FloatMisrounds == {29, 57, 58}

\* int((rows_migrated / row_count) * 100) in double arithmetic.  The quotient
\* r/t is correctly rounded, so it is the double nearest to k/100 whenever
\* 100*r = k*t; otherwise the exact value is at least 1/t away from an
\* integer and truncation gives the integer quotient.
IntFloatPct(r, t) ==
  LET q == (r * 100) \div t
  IN IF (r * 100) % t = 0 /\ q \in FloatMisrounds THEN q - 1 ELSE q

\* min(100, int((rows_migrated / row_count) * 100)) if row_count > 0 else 100
Percentage(rows, total) ==
  IF total > 0 THEN Min(100, IntFloatPct(rows, total)) ELSE 100

\* ROWNUM pagination: rows a.rnum with start_row < rnum <= end_row of the
\* table ordered by its first column; rows are named by their rank.
FetchPage(total, batch_size, offset) ==
  LET lo == offset + 1
      hi == Min(offset + batch_size, total)
  IN IF hi < lo THEN <<>> ELSE [i \in 1..(hi - lo + 1) |-> lo + i - 1]

\* offset += batch_size
NextOffsetSkip(offset, batch_size, fetched) == offset + batch_size + 1
NextOffset(offset, batch_size, fetched) == offset + batch_size

\* str.lower() on the identifiers the model uses.
Lower(s) ==
  CASE s = "A" -> "a" [] s = "B" -> "b" [] s = "Z" -> "z"
    [] s = "ID" -> "id" [] s = "NAME" -> "name" [] s = "NOTE" -> "note"
    [] OTHER -> s

ColNames == <<"ID", "NAME", "NOTE">>

\* OracleConnector.get_schema: the column records carry exactly the keys
\* column_name, data_type, data_length, nullable, default_value.
OracleSchema(table_name, ncols) ==
  [table_name |-> table_name,
   columns |-> [i \in 1..ncols |->
                 [column_name |-> ColNames[i], data_type |-> "VARCHAR2",
                  data_length |-> Just(10 * i), nullable |-> "Y",
                  default_value |-> None]],
   primary_keys |-> IF ncols > 0 THEN <<ColNames[1]>> ELSE <<>>,
   original_db_type |-> "ORACLE"]

type_mapping ==
  [t \in {"NUMBER", "VARCHAR2", "CHAR", "DATE", "TIMESTAMP", "CLOB", "BLOB",
          "FLOAT", "RAW", "LONG RAW", "NVARCHAR2", "NCHAR"} |->
     CASE t = "NUMBER" -> "NUMERIC" [] t = "VARCHAR2" -> "VARCHAR"
       [] t = "CHAR" -> "CHAR" [] t = "DATE" -> "TIMESTAMP"
       [] t = "TIMESTAMP" -> "TIMESTAMP" [] t = "CLOB" -> "TEXT"
       [] t = "BLOB" -> "BYTEA" [] t = "FLOAT" -> "DOUBLE PRECISION"
       [] t = "RAW" -> "BYTEA" [] t = "LONG RAW" -> "BYTEA"
       [] t = "NVARCHAR2" -> "VARCHAR" [] t = "NCHAR" -> "CHAR"]

\* A target type string "BASE(a,b)" is the record [base, args].
PgType(base, args) == [base |-> base, args |-> args]

\* One iteration of the column loop of convert_oracle_to_postgres_schema.
ConvertColumn(col) ==
  LET oracle_type == col.data_type
      mapped == IF oracle_type \in DOMAIN type_mapping
                THEN type_mapping[oracle_type] ELSE "VARCHAR"
      pg_type ==
        IF oracle_type = "NUMBER" /\ "data_precision" \in DOMAIN col
           /\ "data_scale" \in DOMAIN col
        THEN IF col.data_precision # None /\ col.data_scale # None
             THEN PgType("NUMERIC", <<col.data_precision, col.data_scale>>)
             ELSE IF col.data_precision # None
                  THEN PgType("NUMERIC", <<col.data_precision>>)
                  ELSE PgType(mapped, <<>>)
        ELSE IF oracle_type = "VARCHAR2" /\ "data_length" \in DOMAIN col
             THEN PgType("VARCHAR", <<col.data_length>>)
             ELSE PgType(mapped, <<>>)
  IN [column_name |-> Lower(col.column_name),
      data_type |-> pg_type,
      nullable |-> (col.nullable = "Y"),
      column_default |-> IF "default_value" \in DOMAIN col
                         THEN col.default_value ELSE None]

convert_oracle_to_postgres_schema(oracle_schema) ==
  [table_name |-> Lower(oracle_schema.table_name),
   columns |-> [i \in 1..Len(oracle_schema.columns) |->
                 ConvertColumn(oracle_schema.columns[i])],
   primary_keys |-> [i \in 1..Len(oracle_schema.primary_keys) |->
                      Lower(oracle_schema.primary_keys[i])],
   original_db_type |-> "POSTGRESQL"]

\* create_table_from_schema reads col["is_nullable"] of every column while
\* it builds the statement: a column record without that key is a KeyError.
CreateTableKeyError(schema) ==
  \E i \in 1..Len(schema.columns) :
     {"is_nullable", "column_default", "column_name", "data_type"}
        \ DOMAIN schema.columns[i] # {}

\* next((c["column_name"] for c in oracle_schema["columns"]
\*       if c["column_name"].lower() == col_name), None)
OracleColNameExact(oracle_schema, col_name) ==
  LET hits == {c \in 1..Len(oracle_schema.columns) :
                 oracle_schema.columns[c].column_name = col_name}
  IN IF hits = {} THEN None
     ELSE Just(oracle_schema.columns[
                 CHOOSE c \in hits : \A d \in hits : c <= d].column_name)
OracleColName(oracle_schema, col_name) ==
  LET hits == {c \in 1..Len(oracle_schema.columns) :
                 Lower(oracle_schema.columns[c].column_name) = col_name}
  IN IF hits = {} THEN None
     ELSE Just(oracle_schema.columns[
                 CHOOSE c \in hits : \A d \in hits : c <= d].column_name)

\* next(c["data_type"] for c in oracle_schema["columns"]
\*      if c["column_name"] == oracle_col_name)
OracleType(oracle_schema, oracle_col_name) ==
  LET hits == {c \in 1..Len(oracle_schema.columns) :
                 oracle_schema.columns[c].column_name = oracle_col_name}
  IN oracle_schema.columns[CHOOSE c \in hits : \A d \in hits : c <= d].data_type

\* Row values are "null", "scalar", "text", "bytes", or a large-object
\* handle (a value with a read method): "clob_handle", "blob_handle".
Handles == {"clob_handle", "blob_handle"}

\* The conversion of one matched value: None is kept; in a column declared
\* CLOB the value becomes str(value.read()) or str(value), in a column
\* declared BLOB bytes(value.read()) or bytes(value); any other declared
\* type keeps the value as it is.
TransformValue(value, oracle_type) ==
  IF value = "null" THEN "null"
  ELSE IF oracle_type = "CLOB" THEN "text"
  ELSE IF oracle_type = "BLOB" THEN "bytes"
  ELSE value

\* transform_oracle_to_postgres_data on one row: the keys of the output row
\* are the target columns whose matching source column is a key of the row.
\* A row is [id, cols, val]: its rank in the source order, its column names
\* and the value of each column.
TransformRow(row, oracle_schema, pg_schema) ==
  LET keys ==
        {pg_schema.columns[k].column_name :
           k \in {j \in 1..Len(pg_schema.columns) :
              LET oracle_col_name ==
                    OracleColName(oracle_schema,
                                  pg_schema.columns[j].column_name)
              IN oracle_col_name # None
                 /\ Val(oracle_col_name) \in row.cols}}
  IN [id |-> row.id,
      keys |-> keys,
      val |-> [col_name \in keys |->
                LET oracle_col_name ==
                      Val(OracleColName(oracle_schema, col_name))
                IN TransformValue(row.val[oracle_col_name],
                                  OracleType(oracle_schema, oracle_col_name))]]

transform_oracle_to_postgres_data(oracle_data, oracle_schema, pg_schema) ==
  [i \in 1..Len(oracle_data) |->
     TransformRow(oracle_data[i], oracle_schema, pg_schema)]

\* -------------------------------------- inputs of the pure functions
MaxPCols == 2
MaxPRows == 2

NoKey == [k \in {} |-> None]
OptKey(k, vals) == {NoKey} \cup {k :> v : v \in vals}

\* Column records handed to the translator, without their name: NUMBER with
\* precision and scale absent, null or known; the character types with the
\* length absent, null or known; and types without parameters.
PureColumns ==
  {[data_type |-> "NUMBER", nullable |-> "N", default_value |-> None]
     @@ pr @@ sc :
     pr \in OptKey("data_precision", {None, Just(10)}),
     sc \in OptKey("data_scale", {None, Just(2)})}
  \cup
  {[data_type |-> t, nullable |-> "Y", default_value |-> None] @@ ln :
     t \in {"VARCHAR2", "NVARCHAR2", "CHAR", "NCHAR"},
     ln \in OptKey("data_length", {None, Just(50)})}
  \cup
  {[data_type |-> t, nullable |-> "Y", default_value |-> None] :
     t \in {"CLOB", "BLOB", "NCLOB", "DATE", "XMLTYPE"}}

\* Column records of the schemas handed to the transformer.
TransformColumns ==
  {[data_type |-> "VARCHAR2", nullable |-> "Y", default_value |-> None,
    data_length |-> Just(50)]}
  \cup
  {[data_type |-> t, nullable |-> "Y", default_value |-> None] :
     t \in {"CLOB", "BLOB", "NCLOB"}}

Named(cols) ==
  [i \in 1..Len(cols) |-> ("column_name" :> ColNames[i]) @@ cols[i]]

SchemasOver(columns, pks) ==
  {[table_name |-> "A", columns |-> Named(cols), primary_keys |-> pk,
    original_db_type |-> "ORACLE"] :
     cols \in UNION {[1..n -> columns] : n \in 0..MaxPCols},
     pk \in pks}

TranslateSchemas == SchemasOver(PureColumns, {<<>>, <<"ID">>, <<"MISSING">>})

\* The schemas handed to the transformer list their columns by type in one
\* order: a column's position only decides its name.
TypeRank(t) ==
  CASE t = "VARCHAR2" -> 1 [] t = "CLOB" -> 2 [] t = "BLOB" -> 3
    [] t = "NCLOB" -> 4 [] OTHER -> 0
TypesInOrder(schema) ==
  \A i \in 1..(Len(schema.columns) - 1) :
    TypeRank(schema.columns[i].data_type)
      <= TypeRank(schema.columns[i + 1].data_type)
TransformSchemas ==
  {schema \in SchemasOver(TransformColumns, {<<>>}) : TypesInOrder(schema)}

\* Values a driver returns for a column of the declared type.
ValuesOf(oracle_type) ==
  CASE oracle_type = "CLOB" -> {"null", "text", "clob_handle"}
    [] oracle_type = "NCLOB" -> {"null", "text", "clob_handle"}
    [] oracle_type = "BLOB" -> {"null", "bytes", "blob_handle"}
    [] OTHER -> {"null", "scalar"}

\* Rows over a schema: any subset of its columns, each with a value of
\* its type.
RowBodies(schema) ==
  LET names == {schema.columns[i].column_name : i \in 1..Len(schema.columns)}
  IN UNION {{f \in [K -> {"null", "scalar", "text", "bytes", "clob_handle",
                          "blob_handle"}] :
               \A c \in K : f[c] \in ValuesOf(OracleType(schema, c))} :
            K \in SUBSET names}

\* The row with every column of the schema, each null.
NullRow(schema) ==
  [c \in {schema.columns[i].column_name : i \in 1..Len(schema.columns)}
     |-> "null"]

\* Batches of up to MaxPRows rows.  The transformer handles each row on its
\* own, so the first two rows range over all rows and the rows after them
\* are null rows.
Batches(schema) ==
  UNION {{[i \in 1..n |->
             LET body == IF i <= 2 THEN f[i] ELSE NullRow(schema)
             IN [id |-> i, cols |-> DOMAIN body, val |-> body]] :
            f \in [1..Min(n, 2) -> RowBodies(schema)]} : n \in 0..MaxPRows}

IsTransformSchema(schema) ==
  /\ schema.primary_keys = <<>>
  /\ TypesInOrder(schema)
  /\ \A i \in 1..Len(schema.columns) :
       schema.columns[i].data_type \in {"CLOB", "BLOB", "NCLOB"}
       \/ /\ schema.columns[i].data_type = "VARCHAR2"
          /\ "data_length" \in DOMAIN schema.columns[i]
          /\ schema.columns[i].data_length = Just(50)

\* ------------------------------------------------------------- state
VARIABLES
  srcRows,        \* source database: rows of each table
  srcCols,        \* source database: columns all_tab_columns lists per table
  request,        \* MigrationRequest of the job
  status,         \* migrations[id]["status"]
  details,        \* migrations[id]["details"]
  pc,             \* position of the background work of the job
  oracle,         \* local `oracle`: "unbound", "closed" or "open"
  postgres,       \* local `postgres`: "unbound", "closed" or "open"
  tables,         \* local `tables`
  idx,            \* position of the for loop in `tables`
  stats,          \* the dict `stats`, aliased by details["stats"]
  migration_log,  \* local `migration_log`
  oracle_schema,  \* local `oracle_schema`
  pg_schema,      \* local `pg_schema`
  row_count,      \* local `row_count`
  rows_migrated,  \* local `rows_migrated`
  offset,         \* local `offset`
  oracle_data,    \* local `oracle_data` (the fetched page)
  target,         \* target database: rows committed per table
  handed,         \* rows passed to insert_data in the current transfer
  calls,          \* number of row count / fetch / insert calls of the job
  xferFetches,    \* fetch calls of the current table transfer
  seen,           \* phases written to details["current_phase"] so far
  failed_in,      \* the phase that the write of "failed" replaced, "" if none
  read,           \* the last response of get_migration
  p_pc,           \* translator / transformer harness: position
  p_schema,       \* harness: the source schema given to the translator
  p_rows,         \* harness: the batch given to the transformer
  p_pg,           \* harness: the translated schema
  p_out,          \* harness: the transformed batch
  fault,          \* the call that raised, "none" if none did
  escaped         \* exception that left the run function, "none" if none

conn == <<oracle, postgres>>
loop == <<tables, idx, oracle_schema, pg_schema, row_count, rows_migrated,
          offset, oracle_data>>
ghost == <<target, handed, calls, xferFetches>>
db == <<srcRows, srcCols>>
pure == <<p_pc, p_schema, p_rows, p_pg, p_out>>
vars == <<srcRows, srcCols, request, status, details, pc, oracle, postgres,
          tables, idx, stats, migration_log, oracle_schema, pg_schema,
          row_count, rows_migrated, offset, oracle_data, target, handed,
          calls, xferFetches, seen, failed_in, read, p_pc, p_schema, p_rows,
          p_pg, p_out, fault, escaped>>

Requests ==
  [tables : IncludeLists, exclude_tables : ExcludeLists,
   only_schema : BOOLEAN, batch_size : BatchSizes]

NoProgress == [set |-> FALSE, table |-> "", rows_processed |-> 0,
               total_rows |-> 0, percentage |-> 0]

\* details is None (present = FALSE) or a dict; a key that was never
\* written reads "" / FALSE.  stats_set says that details["stats"] refers
\* to the dict `stats`, log_set that details["migration_log"] refers to
\* the list `migration_log`.
NoDetails ==
  [present |-> FALSE, current_phase |-> "", current_table |-> "",
   tables_set |-> FALSE, stats_set |-> FALSE, progress |-> NoProgress,
   error |-> "", log_set |-> FALSE]

ZeroStats ==
  [tables_processed |-> 0, rows_migrated |-> 0, schema_conversions |-> 0,
   type_conversions |-> 0, stored_procedures |-> 0]

NoSchema == [table_name |-> "", columns |-> <<>>, primary_keys |-> <<>>,
             original_db_type |-> ""]

\* The response of get_migration before any query was answered.
NoRead == [taken |-> FALSE, status |-> "", current_phase |-> "",
           error |-> "", stats |-> ZeroStats, progress |-> NoProgress,
           log |-> <<>>]

\* The job before create_migration: no record, no locals.
JobInit ==
  /\ status = "none"
  /\ details = NoDetails
  /\ pc = "no_job"
  /\ oracle = "unbound"
  /\ postgres = "unbound"
  /\ tables = <<>>
  /\ idx = 0
  /\ stats = ZeroStats
  /\ migration_log = <<>>
  /\ oracle_schema = NoSchema
  /\ pg_schema = NoSchema
  /\ row_count = 0
  /\ rows_migrated = 0
  /\ offset = 0
  /\ oracle_data = <<>>
  /\ target = [t \in TableSet |-> <<>>]
  /\ handed = <<>>
  /\ calls = [row_count |-> 0, fetch |-> 0, insert |-> 0]
  /\ xferFetches = 0
  /\ seen = {}
  /\ failed_in = ""
  /\ read = NoRead
  /\ fault = "none"
  /\ escaped = "none"

\* The harness of the pure functions is not used by the job.
PureIdle ==
  /\ p_pc = "off"
  /\ p_schema = NoSchema
  /\ p_rows = <<>>
  /\ p_pg = NoSchema
  /\ p_out = <<>>

Init ==
  /\ srcRows \in [TableSet -> RowCounts]
  /\ srcCols \in [TableSet -> 0..MaxCols]
  /\ request \in Requests
  /\ JobInit
  /\ PureIdle

\* History of the phase field: every value written to it is remembered.
Track ==
  /\ seen' = IF details'.current_phase = "" THEN seen
             ELSE seen \cup {details'.current_phase}
  /\ failed_in' = IF details'.current_phase = "failed"
                     /\ details.current_phase # "failed"
                  THEN details.current_phase ELSE failed_in

\* A step of the job answers no query and leaves the harness alone.
Frame == UNCHANGED <<read, pure>>

\* POST /migrations: the record is stored with status pending and
\* details None.
create_migration ==
  /\ pc = "no_job"
  /\ status' = "pending"
  /\ details' = NoDetails
  /\ pc' = "created"
  /\ UNCHANGED <<db, request, conn, loop, stats, migration_log, ghost,
                 fault, escaped>>
  /\ Track
  /\ Frame

\* The background task create_migration schedules: it blocks in
\* time.sleep and then replaces details by a dict of three summary keys.
run_migration ==
  /\ pc = "created"
  /\ status' = "completed"
  /\ details' = [NoDetails EXCEPT !.present = TRUE]
  /\ pc' = "simulated"
  /\ UNCHANGED <<db, request, conn, loop, stats, migration_log, ghost,
                 fault, escaped>>
  /\ Track
  /\ Frame

\* An exception raised by `call` inside the try block enters the except
\* block, whose first write is the status (api.py:275).
Except(call, d) ==
  /\ fault' = call
  /\ status' = "failed"
  /\ details' = d
  /\ pc' = "except_error"
  /\ UNCHANGED escaped

\* Entry of run_oracle_to_postgres_migration, before the try block: the
\* status write and the first phase write.  Subscripting details = None
\* raises TypeError, which no handler of the function catches.
Start ==
  /\ pc \in {"created", "simulated"}
  /\ status' = "running"
  /\ IF details.present
     THEN /\ details' = [details EXCEPT !.current_phase = "schema_analysis"]
          /\ pc' = "connect_oracle"
          /\ UNCHANGED <<fault, escaped>>
     ELSE /\ details' = details
          /\ pc' = "returned"
          /\ fault' = "phase_write"
          /\ escaped' = "TypeError"
  /\ UNCHANGED <<db, request, conn, loop, stats, migration_log, ghost>>
  /\ Track
  /\ Frame

\* The imports, OracleConnector(...) and oracle.connect().
ConnectOracle ==
  /\ pc = "connect_oracle"
  /\ \/ /\ Except("import", details)
        /\ UNCHANGED oracle
     \/ /\ Except("oracle.connect", details)
        /\ oracle' = "closed"
     \/ /\ oracle' = "open"
        /\ pc' = "connect_postgres"
        /\ UNCHANGED <<status, details, fault, escaped>>
  /\ UNCHANGED <<db, request, postgres, loop, stats, migration_log, ghost>>
  /\ Track
  /\ Frame

\* PostgresConnector(...) and postgres.connect().
ConnectPostgres ==
  /\ pc = "connect_postgres"
  /\ \/ /\ Except("postgres.connect", details)
        /\ postgres' = "closed"
     \/ /\ postgres' = "open"
        /\ pc' = "get_tables"
        /\ UNCHANGED <<status, details, fault, escaped>>
  /\ UNCHANGED <<db, request, oracle, loop, stats, migration_log, ghost>>
  /\ Track
  /\ Frame

\* Table selection, the fresh log and stats, and their publication.
\* oracle.get_tables() is only called when request.tables is falsy.
GetTables ==
  /\ pc = "get_tables"
  /\ \/ /\ ~Truthy(request.tables)
        /\ Except("oracle.get_tables", details)
        /\ UNCHANGED <<tables, idx, stats, migration_log>>
     \/ /\ tables' = SelectTables(request, TableNames)
        /\ migration_log' = <<>>
        /\ stats' = ZeroStats
        /\ details' = [details EXCEPT !.tables_set = TRUE,
                                       !.stats_set = TRUE]
        /\ idx' = 1
        /\ pc' = IF tables' = <<>> THEN "plsql" ELSE "get_schema"
        /\ UNCHANGED <<status, fault, escaped>>
  /\ UNCHANGED <<db, request, conn, oracle_schema, pg_schema, row_count,
                 rows_migrated, offset, oracle_data, ghost>>
  /\ Track
  /\ Frame

\* Head of the table loop body: the log line, oracle.get_schema and the
\* type_conversion phase write.
GetSchema ==
  /\ pc = "get_schema"
  /\ LET table_name == tables[idx] IN
     /\ migration_log' = Append(migration_log, <<"analyzing", table_name, 0>>)
     /\ \/ /\ Except("oracle.get_schema", details)
           /\ UNCHANGED oracle_schema
        \/ /\ oracle_schema' = OracleSchema(table_name, srcCols[table_name])
           /\ details' = [details EXCEPT !.current_phase = "type_conversion",
                                          !.current_table = table_name]
           /\ pc' = "create_table"
           /\ UNCHANGED <<status, fault, escaped>>
  /\ UNCHANGED <<db, request, conn, tables, idx, stats, pg_schema, row_count,
                 rows_migrated, offset, oracle_data, ghost>>
  /\ Track
  /\ Frame

\* stats["tables_processed"] += 1; stats["schema_conversions"] += 1
StatsAfterTableUncounted(s) == [s EXCEPT !.schema_conversions = @ + 1]
StatsAfterTableFresh(s) ==
  [ZeroStats EXCEPT !.tables_processed = s.tables_processed + 1,
                    !.schema_conversions = s.schema_conversions + 1]
StatsAfterTable(s) ==
  [s EXCEPT !.tables_processed = @ + 1, !.schema_conversions = @ + 1]

\* Schema translation, postgres.create_table_from_schema, the stats of the
\* table, and the data_migration phase write unless only_schema.
CreateTable ==
  /\ pc = "create_table"
  /\ pg_schema' = convert_oracle_to_postgres_schema(oracle_schema)
  /\ \/ /\ CreateTableKeyError(pg_schema')
        /\ Except("KeyError", details)
        /\ UNCHANGED stats
     \/ /\ ~CreateTableKeyError(pg_schema')
        /\ Except("postgres.create_table", details)
        /\ UNCHANGED stats
     \/ /\ ~CreateTableKeyError(pg_schema')
        /\ stats' = StatsAfterTable(stats)
        /\ IF ~request.only_schema
           THEN /\ details' = [details EXCEPT
                                  !.current_phase = "data_migration"]
                /\ pc' = "row_count"
           ELSE /\ details' = details
                /\ pc' = "next_table"
        /\ UNCHANGED <<status, fault, escaped>>
  /\ UNCHANGED <<db, request, conn, tables, idx, migration_log, oracle_schema,
                 row_count, rows_migrated, offset, oracle_data, ghost>>
  /\ Track
  /\ Frame

\* Columns the cursor description of the table reports.
RowCols(table_name) == {ColNames[i] : i \in 1..srcCols[table_name]}

\* get_oracle_table_row_count and the set-up of the batch loop, up to the
\* first evaluation of `while offset < row_count`.
RowCount ==
  /\ pc = "row_count"
  /\ calls' = [calls EXCEPT !.row_count = @ + 1]
  /\ handed' = <<>>
  /\ xferFetches' = 0
  /\ \/ /\ Except("row_count", details)
        /\ UNCHANGED <<row_count, rows_migrated, offset>>
     \/ /\ row_count' = srcRows[tables[idx]]
        /\ rows_migrated' = 0
        /\ offset' = 0
        /\ pc' = IF offset' < row_count' THEN "fetch" ELSE "next_table"
        /\ UNCHANGED <<status, details, fault, escaped>>
  /\ UNCHANGED <<db, request, conn, tables, idx, stats, migration_log,
                 oracle_schema, pg_schema, oracle_data, target>>
  /\ Track
  /\ Frame

\* if not oracle_data: break
AfterFetchNoBreak(page) == "insert"
AfterFetch(page) == IF page = <<>> THEN "next_table" ELSE "insert"

\* oracle.fetch_data and the empty-page break.
Fetch ==
  /\ pc = "fetch"
  /\ calls' = [calls EXCEPT !.fetch = @ + 1]
  /\ xferFetches' = xferFetches + 1
  /\ \/ /\ Except("oracle.fetch_data", details)
        /\ UNCHANGED oracle_data
     \/ /\ LET table_name == tables[idx]
               page == FetchPage(srcRows[table_name], request.batch_size,
                                 offset)
           IN oracle_data' = [i \in 1..Len(page) |->
                                [id |-> page[i], cols |-> RowCols(table_name),
                                 val |-> [c \in RowCols(table_name) |->
                                            "scalar"]]]
        /\ pc' = AfterFetch(oracle_data')
        /\ UNCHANGED <<status, details, fault, escaped>>
  /\ UNCHANGED <<db, request, conn, tables, idx, stats, migration_log,
                 oracle_schema, pg_schema, row_count, rows_migrated, offset,
                 target, handed>>
  /\ Track
  /\ Frame

\* stats["rows_migrated"] += len(oracle_data), reached only when
\* postgres.insert_data returned.
StatsAfterInsertAlways(s, n, committed) ==
  [s EXCEPT !.rows_migrated = @ + n]
StatsAfterInsert(s, n, committed) ==
  IF committed THEN [s EXCEPT !.rows_migrated = @ + n] ELSE s

\* The transform, postgres.insert_data, and the bookkeeping of the batch up
\* to the next evaluation of `while offset < row_count`.
Insert ==
  /\ pc = "insert"
  /\ LET table_name == tables[idx]
         postgres_data ==
           transform_oracle_to_postgres_data(oracle_data, oracle_schema,
                                             pg_schema)
         ids == [i \in 1..Len(postgres_data) |-> postgres_data[i].id]
         n == Len(oracle_data)
     IN
     /\ calls' = [calls EXCEPT !.insert = @ + 1]
     /\ handed' = handed \o ids
     /\ \/ /\ Except("postgres.insert_data", details)
           /\ stats' = StatsAfterInsert(stats, n, FALSE)
           /\ UNCHANGED <<target, rows_migrated, offset, migration_log>>
        \/ /\ target' = [target EXCEPT ![table_name] = @ \o ids]
           /\ rows_migrated' = rows_migrated + n
           /\ stats' = StatsAfterInsert(stats, n, TRUE)
           /\ details' =
                [details EXCEPT !.stats_set = TRUE,
                   !.progress =
                     [set |-> TRUE, table |-> table_name,
                      rows_processed |-> rows_migrated',
                      total_rows |-> row_count,
                      percentage |-> Percentage(rows_migrated', row_count)]]
           /\ migration_log' =
                Append(migration_log, <<"migrated", table_name, rows_migrated'>>)
           /\ offset' = NextOffset(offset, request.batch_size, n)
           /\ pc' = IF offset' < row_count THEN "fetch" ELSE "next_table"
           /\ UNCHANGED <<status, fault, escaped>>
  /\ UNCHANGED <<db, request, conn, tables, idx, oracle_schema, pg_schema,
                 row_count, oracle_data, xferFetches>>
  /\ Track
  /\ Frame

\* The for loop takes the next table, or is exhausted.
NextTable ==
  /\ pc = "next_table"
  /\ IF idx < Len(tables)
     THEN idx' = idx + 1 /\ pc' = "get_schema"
     ELSE idx' = idx /\ pc' = "plsql"
  /\ UNCHANGED <<db, request, status, details, conn, tables, stats,
                 migration_log, oracle_schema, pg_schema, row_count,
                 rows_migrated, offset, oracle_data, ghost, fault, escaped>>
  /\ Track
  /\ Frame

\* Phase 3 marker.
PlsqlDetailsBack(d) == [d EXCEPT !.current_phase = "schema_analysis"]
PlsqlDetails(d) == [d EXCEPT !.current_phase = "plsql_conversion"]

Plsql ==
  /\ pc = "plsql"
  /\ details' = PlsqlDetails(details)
  /\ pc' = "validation"
  /\ UNCHANGED <<db, request, status, conn, loop, stats, migration_log, ghost,
                 fault, escaped>>
  /\ Track
  /\ Frame

\* Phase 4 marker.
Validation ==
  /\ pc = "validation"
  /\ details' = [details EXCEPT !.current_phase = "validation"]
  /\ pc' = "complete"
  /\ UNCHANGED <<db, request, status, conn, loop, stats, migration_log, ghost,
                 fault, escaped>>
  /\ Track
  /\ Frame

\* The completion writes; control then enters the finally block.
Complete ==
  /\ pc = "complete"
  /\ status' = "completed"
  /\ details' = [details EXCEPT !.current_phase = "completed",
                                 !.log_set = TRUE]
  /\ pc' = "disconnect_oracle"
  /\ UNCHANGED <<db, request, conn, loop, stats, migration_log, ghost, fault,
                 escaped>>
  /\ Track
  /\ Frame

\* except block, second write: details["error"] = str(e).
ExceptError ==
  /\ pc = "except_error"
  /\ details' = [details EXCEPT !.error = fault]
  /\ pc' = "except_phase"
  /\ UNCHANGED <<db, request, status, conn, loop, stats, migration_log, ghost,
                 fault, escaped>>
  /\ Track
  /\ Frame

\* except block, third write: details["current_phase"] = "failed"; control
\* then enters the finally block.
ExceptPhase ==
  /\ pc = "except_phase"
  /\ details' = [details EXCEPT !.current_phase = "failed"]
  /\ pc' = "disconnect_oracle"
  /\ UNCHANGED <<db, request, status, conn, loop, stats, migration_log, ghost,
                 fault, escaped>>
  /\ Track
  /\ Frame

\* OracleConnector.disconnect / PostgresConnector.disconnect on a connector
\* whose connection field is `connection`: close() is only called when the
\* field is set, and the field is reset only when close() returned.
disconnectUnguarded(connection, close_ok) ==
  IF connection = "open"
  THEN IF close_ok THEN [connection |-> "closed", raised |-> "none"]
                   ELSE [connection |-> "open", raised |-> "close"]
  ELSE [connection |-> connection, raised |-> "AttributeError"]
disconnect(connection, close_ok) ==
  IF connection = "open"
  THEN IF close_ok THEN [connection |-> "closed", raised |-> "none"]
                   ELSE [connection |-> "open", raised |-> "close"]
  ELSE [connection |-> connection, raised |-> "none"]

\* finally: if 'oracle' in locals(): oracle.disconnect().  When the call
\* raises, the exception leaves the function and the rest of the finally
\* block is skipped.
DisconnectOracle ==
  /\ pc = "disconnect_oracle"
  /\ IF oracle = "unbound"
     THEN /\ pc' = "disconnect_postgres"
          /\ UNCHANGED <<oracle, escaped>>
     ELSE \E close_ok \in BOOLEAN :
            LET r == disconnect(oracle, close_ok) IN
            /\ oracle' = r.connection
            /\ IF r.raised = "none"
               THEN /\ pc' = "disconnect_postgres"
                    /\ UNCHANGED escaped
               ELSE /\ pc' = "returned"
                    /\ escaped' = IF r.raised = "close" THEN "oracle.close"
                                  ELSE r.raised
  /\ UNCHANGED <<db, request, status, details, postgres, loop, stats,
                 migration_log, ghost, fault>>
  /\ Track
  /\ Frame

\* finally: if 'postgres' in locals(): postgres.disconnect().
DisconnectPostgres ==
  /\ pc = "disconnect_postgres"
  /\ pc' = "returned"
  /\ IF postgres = "unbound"
     THEN UNCHANGED <<postgres, escaped>>
     ELSE \E close_ok \in BOOLEAN :
            LET r == disconnect(postgres, close_ok) IN
            /\ postgres' = r.connection
            /\ escaped' = CASE r.raised = "none" -> escaped
                            [] r.raised = "close" -> "postgres.close"
                            [] OTHER -> r.raised
  /\ UNCHANGED <<db, request, status, details, oracle, loop, stats,
                 migration_log, ghost, fault>>
  /\ Track
  /\ Frame

Next ==
  \/ create_migration
  \/ run_migration
  \/ Start
  \/ ConnectOracle
  \/ ConnectPostgres
  \/ GetTables
  \/ GetSchema
  \/ CreateTable
  \/ RowCount
  \/ Fetch
  \/ Insert
  \/ NextTable
  \/ Plsql
  \/ Validation
  \/ Complete
  \/ ExceptError
  \/ ExceptPhase
  \/ DisconnectOracle
  \/ DisconnectPostgres

Spec == Init /\ [][Next]_vars

\* ------------------------------------------- any accepted batch size
\* MigrationRequest.batch_size is an unconstrained int: 0 and negative
\* values are accepted.
TransferBatchSizes == (-1)..MaxBatch

InitTransfer ==
  /\ srcRows \in [TableSet -> 0..MaxRows]
  /\ srcCols \in [TableSet -> 0..MaxCols]
  /\ request \in [tables : {None}, exclude_tables : {None},
                   only_schema : {FALSE}, batch_size : TransferBatchSizes]
  /\ JobInit
  /\ PureIdle

\* Once scheduled, the run function keeps executing: each of its steps
\* is a statement of one coroutine without await, and a connector call
\* returns or raises.
SpecTransfer == InitTransfer /\ [][Next]_vars /\ WF_vars(Next)

\* ------------------------------------------------------ status queries
\* run_oracle_to_postgres_migration and run_migration are coroutines
\* without any await, and their driver calls and time.sleep are blocking
\* calls: once started on the event loop they run to their return before
\* the loop serves another handler or task.
LoopFreeAlways == pc # "no_job"
LoopFree == pc \in {"no_job", "created", "simulated", "returned"}

\* GET /migrations/{migration_id} for the job (404 while it is not stored).
get_migration ==
  /\ LoopFree
  /\ status # "none"
  /\ read' = [taken |-> TRUE,
              status |-> status,
              current_phase |-> details.current_phase,
              error |-> details.error,
              stats |-> IF details.stats_set THEN stats ELSE ZeroStats,
              progress |-> details.progress,
              log |-> IF details.log_set THEN migration_log ELSE <<>>]
  /\ UNCHANGED <<db, request, status, details, pc, conn, loop, stats,
                 migration_log, ghost, seen, failed_in, fault, escaped, pure>>

InitQuery ==
  /\ srcRows \in [TableSet -> 0..MaxRows]
  /\ srcCols \in [TableSet -> 0..MaxCols]
  /\ request \in {q \in Requests : q.exclude_tables = None
                                    /\ q.batch_size <= MaxBatch}
  /\ JobInit
  /\ PureIdle

NextQuery ==
  \/ Next
  \/ get_migration

SpecQuery == InitQuery /\ [][NextQuery]_vars

\* --------------------------------------- harness of the pure functions
job == <<srcRows, srcCols, request, status, details, pc, oracle, postgres,
         tables, idx, stats, migration_log, oracle_schema, pg_schema,
         row_count, rows_migrated, offset, oracle_data, target, handed,
         calls, xferFetches, seen, failed_in, read, fault, escaped>>

InitPure ==
  /\ srcRows = [t \in TableSet |-> 0]
  /\ srcCols = [t \in TableSet |-> 0]
  /\ request = [tables |-> None, exclude_tables |-> None,
                only_schema |-> FALSE, batch_size |-> 1]
  /\ JobInit
  /\ p_pc = "input"
  /\ p_schema \in TranslateSchemas \cup TransformSchemas
  /\ p_rows \in IF IsTransformSchema(p_schema) THEN Batches(p_schema)
                ELSE {<<>>}
  /\ p_pg = NoSchema
  /\ p_out = <<>>

\* pg_schema = convert_oracle_to_postgres_schema(oracle_schema)
Translate ==
  /\ p_pc = "input"
  /\ p_pg' = convert_oracle_to_postgres_schema(p_schema)
  /\ p_pc' = "translated"
  /\ UNCHANGED <<job, p_schema, p_rows, p_out>>

\* postgres_data = transform_oracle_to_postgres_data(oracle_data,
\*                     oracle_schema, pg_schema)
Transform ==
  /\ p_pc = "translated"
  /\ p_out' = transform_oracle_to_postgres_data(p_rows, p_schema, p_pg)
  /\ p_pc' = "transformed"
  /\ UNCHANGED <<job, p_schema, p_rows, p_pg>>

NextPure ==
  \/ Translate
  \/ Transform

SpecPure == InitPure /\ [][NextPure]_vars

\* ------------------------------------------------------------ claims

\* Position of a phase in the order schema_analysis, type_conversion,
\* data_migration, procedure_conversion (written by the code as
\* plsql_conversion), validation, completed.
PhaseRank(p) ==
  CASE p = "" -> 0
    [] p = "schema_analysis" -> 1
    [] p = "type_conversion" -> 2
    [] p = "data_migration" -> 3
    [] p = "plsql_conversion" -> 4
    [] p = "validation" -> 5
    [] p = "completed" -> 6
    [] OTHER -> 7

PhaseForward(p, q) ==
  /\ p = "failed" => q = "failed"
  /\ q # "failed" => PhaseRank(p) <= PhaseRank(q)

\* C1 as stated: over a run the phase only moves forward through the order
\* schema_analysis, type_conversion, data_migration, procedure_conversion,
\* validation, completed, or to failed, and failed never changes again.
C1_PhaseMonotonic ==
  [][PhaseForward(details.current_phase, details'.current_phase)]_vars

\* C1 amended: the phase moves forward through the order or to failed, and
\* failed never changes again, except that the schema step of every table
\* after the first takes the phase from data_migration back to
\* type_conversion.
C1_PhaseMonotonicPerTable ==
  [][\/ PhaseForward(details.current_phase, details'.current_phase)
     \/ /\ details.current_phase = "data_migration"
        /\ details'.current_phase = "type_conversion"
        /\ pc = "get_schema"
        /\ idx > 1]_vars

C1_Witness ==
  /\ details.current_phase = "completed"
  /\ Len(tables) >= 2
  /\ ~request.only_schema
  /\ "data_migration" \in seen

\* C2: when the run function has returned, no connector is still
\* connected, also when a disconnect call itself raised.
C2_AllDisconnected ==
  pc = "returned" => oracle # "open" /\ postgres # "open"

\* C3: every fault raised after the run function started leaves the job
\* failed, in phase failed, with the fault recorded as the error, and the
\* run function never returns with the job still running.
C3_FaultsCaught ==
  pc = "returned" =>
    /\ status # "running"
    /\ fault # "none" =>
          /\ status = "failed"
          /\ details.current_phase = "failed"
          /\ details.error = fault

DriverFaults ==
  {"import", "oracle.connect", "postgres.connect", "oracle.get_tables",
   "oracle.get_schema", "postgres.create_table", "row_count",
   "oracle.fetch_data", "postgres.insert_data"}

\* C4: a job whose details were initialised and none of whose connector
\* calls faults returns completed, with the schema step done for every
\* selected table.
C4_CompletesWithoutFaults ==
  (pc = "returned" /\ details.present /\ fault \notin DriverFaults
     /\ escaped = "none") =>
    /\ status = "completed"
    /\ details.current_phase = "completed"
    /\ stats.tables_processed = Len(tables)

\* C5: when the transfer of a table has run to its end, every source row
\* 1..row_count was handed to insert_data exactly once.
C5_EachRowOnce ==
  (pc = "next_table" /\ ~request.only_schema) =>
    /\ row_count = srcRows[tables[idx]]
    /\ Len(handed) = row_count
    /\ \A r \in 1..row_count :
         Cardinality({i \in 1..Len(handed) : handed[i] = r}) = 1
    /\ target[tables[idx]] = handed

C5_Witness ==
  /\ pc = "next_table"
  /\ ~request.only_schema
  /\ row_count = 3
  /\ request.batch_size = 2
  /\ Len(handed) = 3

RECURSIVE SumLen(_, _)
SumLen(f, S) ==
  IF S = {} THEN 0
  ELSE LET t == CHOOSE x \in S : TRUE
       IN Len(f[t]) + SumLen(f, S \ {t})

\* C6: after a failed insert call the job is failed and stats.rows_migrated
\* is the number of rows of the batches committed before it, over all
\* tables; the failed batch is not counted.
C6_StatsOnlyCommitted ==
  fault = "postgres.insert_data" =>
    /\ status = "failed"
    /\ pc \in {"disconnect_oracle", "disconnect_postgres", "returned"}
         => details.current_phase = "failed"
    /\ details.stats_set
    /\ stats.rows_migrated = SumLen(target, TableSet)

C6_Witness ==
  /\ fault = "postgres.insert_data"
  /\ pc = "returned"
  /\ idx = 2
  /\ Len(target[tables[1]]) >= 2
  /\ Len(target[tables[2]]) >= 1
  /\ stats.rows_migrated >= 3

\* C7: the transfer of a table with row_count 0 issues no fetch and
\* publishes a progress record for the table with percentage 100 and zero
\* rows processed.
C7_EmptyTableProgress ==
  (pc = "next_table" /\ ~request.only_schema /\ row_count = 0) =>
    /\ xferFetches = 0
    /\ details.progress.set
    /\ details.progress.table = tables[idx]
    /\ details.progress.percentage = 100
    /\ details.progress.rows_processed = 0

\* C8: the published percentage lies in 0..100, is
\* min(100, floor(rowsMigrated * 100 / totalRows)), and is 100 when
\* rowsMigrated = totalRows.
C8_PercentageFormula ==
  (details.progress.set /\ details.progress.total_rows > 0) =>
    LET pr == details.progress IN
    /\ pr.percentage \in 0..100
    /\ pr.percentage = Min(100, (pr.rows_processed * 100) \div pr.total_rows)
    /\ pr.rows_processed = pr.total_rows => pr.percentage = 100

\* The table set of C9: the include-list when supplied, else the full table
\* list, without the names of the exclude-list.
ExpectedTables ==
  Filter(IF request.tables # None THEN Val(request.tables) ELSE TableNames,
         IF request.exclude_tables # None THEN Val(request.exclude_tables)
         ELSE <<>>)

\* C9: the tables a job processes are the include-list when one is
\* supplied (also an empty one), otherwise the full table list, minus the
\* excluded names.
C9_TableSelection ==
  details.tables_set => tables = ExpectedTables

\* C10: a schema-only job issues no row count, fetch or insert call, keeps
\* rows_migrated at 0, and has data_migration recorded as reached once the
\* schema step of a table is done.
C10_SchemaOnly ==
  request.only_schema =>
    /\ calls.row_count = 0 /\ calls.fetch = 0 /\ calls.insert = 0
    /\ stats.rows_migrated = 0
    /\ (pc = "next_table" \/ status = "completed") /\ Len(tables) > 0
         => "data_migration" \in seen

\* Log lines that name a phase.
PhaseLines(log) == {i \in 1..Len(log) : log[i][1] = "phase"}

\* C11: in the record of a failed job the log is readable and holds the
\* phase that was active when the fault was raised.
C11_FailedPhaseInLog ==
  (status = "failed" /\ details.current_phase = "failed") =>
    /\ details.log_set
    /\ \E i \in PhaseLines(migration_log) : migration_log[i][2] = failed_in

\* Faults of the schema step of a table: schema read, translation and
\* target table creation.
SchemaFaults == {"oracle.get_schema", "KeyError", "postgres.create_table"}

\* C12: a table has rows in the target only if its schema step (read,
\* translation, creation) was completed before, which the job counts in
\* tables_processed; a fault in the schema step of a table leaves no row of
\* that table in the target.
C12_SchemaBeforeData ==
  /\ \A t \in TableSet :
       target[t] # <<>> =>
         \E i \in 1..stats.tables_processed : i <= Len(tables) /\ tables[i] = t
  /\ pc \in {"fetch", "insert"} => stats.tables_processed = idx
  /\ fault \in SchemaFaults => target[tables[idx]] = <<>>

C12_Witness ==
  /\ fault = "postgres.create_table"
  /\ pc = "returned"
  /\ idx = 2
  /\ target[tables[1]] # <<>>
  /\ target[tables[2]] = <<>>

\* A parameter of a source column is known when its key is in the column
\* record and its value is not null.
Known(col, k) == k \in DOMAIN col /\ col[k] # None

\* C13: a NUMBER column translates to NUMERIC(p,s) when precision and scale
\* are known, to NUMERIC(p) when only the precision is known (scale absent
\* or null), and to NUMERIC when neither is known.
C13_NumberTranslation ==
  p_pc # "input" =>
    \A i \in 1..Len(p_schema.columns) :
      LET col == p_schema.columns[i]
          out == p_pg.columns[i].data_type
      IN col.data_type = "NUMBER" =>
           /\ (Known(col, "data_precision") /\ Known(col, "data_scale"))
                => out = PgType("NUMERIC",
                                <<col.data_precision, col.data_scale>>)
           /\ (Known(col, "data_precision") /\ ~Known(col, "data_scale"))
                => out = PgType("NUMERIC", <<col.data_precision>>)
           /\ (~Known(col, "data_precision") /\ ~Known(col, "data_scale"))
                => out = PgType("NUMERIC", <<>>)

CharTypes == {"VARCHAR2", "NVARCHAR2", "CHAR", "NCHAR"}

\* C14: a VARCHAR2, NVARCHAR2, CHAR or NCHAR column with a known length L
\* translates to the mapped type with parameter (L), and with an unknown
\* length to the mapped type without parameter.
C14_CharTranslation ==
  p_pc # "input" =>
    \A i \in 1..Len(p_schema.columns) :
      LET col == p_schema.columns[i]
          out == p_pg.columns[i].data_type
      IN col.data_type \in CharTypes =>
           out = PgType(type_mapping[col.data_type],
                        IF Known(col, "data_length")
                        THEN <<col.data_length>> ELSE <<>>)

\* C15: every schema the translation returns has its primary-key names
\* among its column names (a source schema whose primary key names a
\* missing column is rejected, so no schema is returned for it).
C15_PrimaryKeySubset ==
  p_pc # "input" =>
    {p_pg.primary_keys[i] : i \in 1..Len(p_pg.primary_keys)}
      \subseteq {p_pg.columns[i].column_name : i \in 1..Len(p_pg.columns)}

\* The source column of a target key of the harness (names are upper case,
\* so lower-casing is one to one).
SourceOf(schema, key) ==
  CHOOSE c \in {schema.columns[i].column_name :
                  i \in 1..Len(schema.columns)} : Lower(c) = key

\* C16: no output row of the transformer holds a large-object handle: a
\* textual handle was drained to character data, a binary one to bytes.
C16_NoHandleInOutput ==
  p_pc = "transformed" =>
    \A i \in 1..Len(p_out) : \A k \in p_out[i].keys :
      LET v == p_rows[i].val[SourceOf(p_schema, k)] IN
      /\ p_out[i].val[k] \notin Handles
      /\ v = "clob_handle" => p_out[i].val[k] = "text"
      /\ v = "blob_handle" => p_out[i].val[k] = "bytes"

\* C17: the transformer returns one row per input row, in order, whose
\* keys are the target columns with a source column of the same lower-cased
\* name present in the row; a matched null stays null.
C17_RowShape ==
  p_pc = "transformed" =>
    /\ Len(p_out) = Len(p_rows)
    /\ \A i \in 1..Len(p_rows) :
         /\ p_out[i].id = p_rows[i].id
         /\ p_out[i].keys =
              {p_pg.columns[j].column_name :
                 j \in {k \in 1..Len(p_pg.columns) :
                          \E c \in p_rows[i].cols :
                             Lower(c) = p_pg.columns[k].column_name}}
         /\ DOMAIN p_out[i].val = p_out[i].keys
         /\ \A c \in p_rows[i].cols :
              p_rows[i].val[c] = "null" => p_out[i].val[Lower(c)] = "null"

C17_Witness ==
  /\ p_pc = "transformed"
  /\ Len(p_rows) = 2
  /\ Len(p_pg.columns) = 2
  /\ p_rows[1].cols = {"ID"}
  /\ p_rows[2].cols = {"ID", "NAME"}
  /\ p_rows[2].val["NAME"] = "null"
  /\ p_out[1].keys = {"id"}

\* C18: after the schema step of a table and after a committed batch the
\* job record holds the current table, the stats, the progress of the
\* batch and the log lines written so far; the record of a failed job holds
\* the log written up to the fault.
C18_RecordCurrent ==
  /\ pc \in {"row_count", "next_table"} =>
       /\ details.current_table = tables[idx]
       /\ details.stats_set
       /\ details.log_set
  /\ (pc \in {"fetch", "next_table"} /\ rows_migrated > 0) =>
       /\ details.progress.set
       /\ details.progress.rows_processed = rows_migrated
       /\ details.log_set
  /\ (pc = "returned" /\ status = "failed" /\ migration_log # <<>>) =>
       details.log_set

\* C19: every response of a status query is a whole snapshot: the status is
\* failed exactly when the phase is failed, a failed status comes with its
\* error, and a completed run comes with phase completed.
C19_SnapshotConsistent ==
  read.taken =>
    /\ (read.status = "failed") <=> (read.current_phase = "failed")
    /\ read.status = "failed" => read.error # ""
    /\ (read.status = "completed" /\ read.current_phase # "")
         => read.current_phase = "completed"

C19_Witness ==
  /\ read.taken
  /\ read.status = "failed"
  /\ read.current_phase = "failed"
  /\ read.error = "postgres.insert_data"
  /\ read.stats.rows_migrated > 0

\* Positions at which the run function waits on a connector call.
ConnectorWaits ==
  {"connect_oracle", "connect_postgres", "get_tables", "get_schema",
   "create_table", "row_count", "fetch", "insert", "disconnect_oracle",
   "disconnect_postgres"}

\* C20: while the pipeline of a job waits on a connector call, a status
\* query (like a step of another job) can be served.
C20_QueryNotBlocked ==
  pc \in ConnectorWaits => ENABLED get_migration

\* C21: in every step of a job, also of one that fails, none of the five
\* counters of the stats decreases, and tables_processed is at most the
\* number of selected tables.
C21_CountersMonotonic ==
  [][/\ \A k \in DOMAIN ZeroStats : stats'[k] >= stats[k]
     /\ stats'.tables_processed <= Len(tables')]_vars

C21_Witness ==
  /\ pc = "returned"
  /\ status = "failed"
  /\ fault = "oracle.fetch_data"
  /\ Len(tables) = 2
  /\ stats.tables_processed = 2
  /\ stats.rows_migrated = MaxRows

\* C22: after every page the transfer loop has advanced the offset by the
\* number of rows fetched, so that whenever the loop condition is evaluated
\* or the loop has ended the offset equals the number of rows read so far.
C22_OffsetIsRowsRead ==
  (pc \in {"fetch", "next_table"} /\ ~request.only_schema) =>
    offset = rows_migrated

\* C23: disconnect on a connector without a connection (connect never
\* called, or failed) changes nothing and raises nothing; a second
\* disconnect after one that returned does the same as none; and a job
\* whose oracle.connect() failed returns failed with that error recorded
\* and no exception out of the cleanup.
C23_DisconnectSafe ==
  /\ \A close_ok \in BOOLEAN :
       disconnect("closed", close_ok) =
         [connection |-> "closed", raised |-> "none"]
  /\ \A c \in {"closed", "open"} : \A ok1, ok2 \in BOOLEAN :
       LET once == disconnect(c, ok1) IN
       once.raised = "none" => disconnect(once.connection, ok2) = once
  /\ (pc = "returned" /\ fault = "oracle.connect") =>
       /\ status = "failed"
       /\ details.error = "oracle.connect"
       /\ details.current_phase = "failed"
       /\ escaped = "none"
       /\ oracle = "closed"

C23_Witness ==
  /\ pc = "returned"
  /\ fault = "oracle.connect"
  /\ oracle = "closed"
  /\ postgres = "unbound"
  /\ status = "failed"

CeilDiv(a, b) == (a + b - 1) \div b

\* C24: the transfer loop of a table is always left, for every row count
\* and every batch size, positive or not: it issues at most
\* ceil(row_count / batch_size) fetch calls for a positive batch size and
\* at most one for a batch size of 0 or less.
C24_TransferTerminates ==
  /\ [](xferFetches <= IF request.batch_size > 0
                        THEN CeilDiv(row_count, request.batch_size)
                        ELSE 1)
  /\ (pc = "row_count") ~> (pc \in {"next_table", "except_error"})

C24_Witness ==
  /\ pc = "next_table"
  /\ request.batch_size <= 0
  /\ row_count = MaxRows
  /\ xferFetches = 1
  /\ rows_migrated = 0

====
